---- MODULE Spec2Model ----
(***************************************************************************)
(* Model of src/main.py: the FastAPI handler process_request (POST /api/). *)
(* An uploaded archive is validated, its single entry is extracted to the  *)
(* scratch directory "extracted_files", parsed as CSV, every value of the  *)
(* "question" column is sent to the remote completion service, and the     *)
(* question -> answer mapping is returned after the scratch file is        *)
(* removed.  Every exception raised inside the try block is turned into    *)
(* {"error": str(e)} by the handler of lines 160-162.                      *)
(*                                                                         *)
(* Several requests are handled by one event loop.  The handler is an      *)
(* `async def`; its only `await` is files.read() (line 115).  The remote   *)
(* client is the synchronous Groq client and create(...) is called without *)
(* await (line 143), so it blocks the event loop instead of yielding it.   *)
(*                                                                         *)
(* Strings whose suffix the code tests (file names, entry names) are       *)
(* sequences of characters; a CSV file is the sequence of its lines (one   *)
(* column: the header line, then one value per data row).                  *)
(***************************************************************************)
EXTENDS Integers, Sequences, FiniteSets, TLC

VARIABLES
    GROQ_API_KEY,   \* module global, read once at import (line 29)
    starlette_str,  \* does the installed HTTPException define __str__ ?
    loop,           \* request running on the event loop, 0 when it is free
    fs,             \* files of the scratch directory: path -> lines
    pc,             \* position of each request in process_request
    files,          \* the UploadFile of each request
    contents,       \* result of `await files.read()` (line 115)
    file_names,     \* zip_ref.namelist() (line 120)
    csv_file_path,  \* line 131
    df,             \* the DataFrame: column name -> values (line 134)
    answers,        \* the dict of line 140
    idx,            \* number of rows the for loop of line 142 has consumed
    calls,          \* remote calls issued by the request, in order
    e,              \* the exception caught at line 160
    response        \* what the request returns to the client

vars == <<GROQ_API_KEY, starlette_str, loop, fs, pc, files, contents,
          file_names, csv_file_path, df, answers, idx, calls, e, response>>

----------------------------------------------------------------------------
(* Bounds *)

NumRequests == 2
MaxRows == 2

Reqs == 1..NumRequests

----------------------------------------------------------------------------
(* Strings as character sequences *)

DotZip == <<".", "z", "i", "p">>
DotCsv == <<".", "c", "s", "v">>
DotTxt == <<".", "t", "x", "t">>
QZip == <<"q">> \o DotZip
QTxt == <<"q">> \o DotTxt
QCsv == <<"q">> \o DotCsv
RCsv == <<"r">> \o DotCsv
NotesTxt == <<"n">> \o DotTxt
extracted_dir == <<"extracted_files">>

\* str.endswith
EndsWithAlways(s, suffix) == TRUE

EndsWith(s, suffix) ==
    /\ Len(s) >= Len(suffix)
    /\ SubSeq(s, Len(s) - Len(suffix) + 1, Len(s)) = suffix

\* os.path.join(a, b) for a relative b
PathJoin(a, b) == a \o <<"/">> \o b

----------------------------------------------------------------------------
(* Inputs *)

Questions == {"2+2?", "capital of France?"}
Answers == {"4", "Paris"}

RowSeqs == UNION {[1..n -> Questions] : n \in 0..MaxRows}

EmptyFile == <<>>
DefaultCsv == <<"question", "2+2?">>

\* one-column CSV files: with the "question" header, with a header that
\* differs in case only, and the zero-byte file
CsvFiles ==
    {<<"question">> \o rows : rows \in RowSeqs}
        \cup {<<"Question", "2+2?">>, EmptyFile}

Entry(name, data) == [name |-> name, data |-> data]

Archive(entries) == [zip |-> TRUE, entries |-> entries]
NotAnArchive == [zip |-> FALSE, entries |-> <<>>]

\* archives of zero, one and two entries; the data of an entry matters only
\* when it is the single entry of its archive (nothing else is extracted)
Archives ==
    {Archive(<<>>)}
        \cup {Archive(<<Entry(QCsv, d)>>) : d \in CsvFiles}
        \cup {Archive(<<Entry(n, DefaultCsv)>>) : n \in {RCsv, NotesTxt}}
        \cup {Archive(<<Entry(n, DefaultCsv), Entry(m, DefaultCsv)>>) :
                 <<n, m>> \in {<<QCsv, RCsv>>, <<QCsv, NotesTxt>>,
                               <<NotesTxt, QCsv>>, <<NotesTxt, NotesTxt>>}}

Uploads ==
    {[filename |-> QZip, bytes |-> a] : a \in Archives \cup {NotAnArchive}}
        \cup {[filename |-> QTxt, bytes |-> Archive(<<Entry(QCsv, DefaultCsv)>>)]}

\* what the requests that run beside request 1 upload: the entry name q.csv
\* again, with other data: rows that are answered (the file is removed), and
\* a zero-byte file (the parse fails and the file stays)
OtherUploads ==
    {[filename |-> QZip, bytes |-> Archive(<<Entry(QCsv, d)>>)] :
        d \in {<<"question", "capital of France?">>, EmptyFile}}

UploadsOf(r) == IF r = 1 THEN Uploads ELSE OtherUploads

----------------------------------------------------------------------------
(* Exceptions and their messages *)

MissingKeyDetail == "Missing API Key. Check .env file."
NotZipDetail == "Uploaded file must be a ZIP file."
NotOneCsvDetail == "ZIP must contain exactly one CSV file."

NoExc == [type |-> "None", status_code |-> 0, detail |-> ""]
HTTPException(status_code, detail) ==
    [type |-> "HTTPException", status_code |-> status_code, detail |-> detail]
BadZipFile ==
    [type |-> "BadZipFile", status_code |-> 0, detail |-> "File is not a zip file"]
EmptyDataError ==
    [type |-> "EmptyDataError", status_code |-> 0,
     detail |-> "No columns to parse from file"]
KeyError(key) == [type |-> "KeyError", status_code |-> 0, detail |-> key]
FileNotFoundError ==
    [type |-> "FileNotFoundError", status_code |-> 0,
     detail |-> "[Errno 2] No such file or directory"]
APIConnectionError ==
    [type |-> "APIConnectionError", status_code |-> 0,
     detail |-> "Connection error."]

\* str(e) of line 162.  An HTTPException renders as "<status>: <detail>"
\* when the installed Starlette defines __str__, and as "" otherwise (the
\* constructor passes keyword arguments only, so e.args is empty).  A
\* KeyError renders as the repr of its key.
Str(exc) ==
    CASE exc.type = "HTTPException" ->
            IF ~starlette_str THEN ""
            ELSE IF exc.status_code = 400 /\ exc.detail = NotZipDetail
                 THEN "400: Uploaded file must be a ZIP file."
            ELSE IF exc.status_code = 400 /\ exc.detail = NotOneCsvDetail
                 THEN "400: ZIP must contain exactly one CSV file."
            ELSE "500: Missing API Key. Check .env file."
      [] exc.type = "KeyError" ->
            IF exc.detail = "question" THEN "'question'" ELSE "'?'"
      [] OTHER -> exc.detail

----------------------------------------------------------------------------
(* Pure helpers of the handler *)

\* `not GROQ_API_KEY`
NotKeyNever(key) == FALSE

NotKey(key) == key = ""

\* zip_ref.namelist()
NameList(bytes) == [i \in DOMAIN bytes.entries |-> bytes.entries[i].name]

\* the condition of line 123
NotOneCsv(names) == Len(names) # 1 \/ ~EndsWith(names[1], DotCsv)

\* the member zip_ref.extract(name) writes: the last entry of that name
MemberData(bytes, name) ==
    LET is == {i \in DOMAIN bytes.entries : bytes.entries[i].name = name}
        last == CHOOSE i \in is : \A j \in is : j <= i
    IN  bytes.entries[last].data

\* pd.read_csv of a one-column file that has a header line
ReadCsv(lines) == Head(lines) :> Tail(lines)

\* df[name]
ColumnAnyCase(frame, name) ==
    [found |-> DOMAIN frame # {},
     series |-> IF DOMAIN frame # {}
                THEN frame[CHOOSE c \in DOMAIN frame : TRUE] ELSE <<>>]

Column(frame, name) ==
    [found |-> name \in DOMAIN frame,
     series |-> IF name \in DOMAIN frame THEN frame[name] ELSE <<>>]

\* answers[question] = content (line 152)
StoreFirst(map, question, content) ==
    IF question \in DOMAIN map THEN map ELSE (question :> content) @@ map

Store(map, question, content) == (question :> content) @@ map

\* os.remove(path) on an existing path
RemoveNothing(dir, path) == dir

Remove(dir, path) == [p \in DOMAIN dir \ {path} |-> dir[p]]

\* the body returned at line 158
Wrapped(map) == [responses |-> map]

SuccessBody(map) == map

\* the body returned at line 162
PartialBody(map, exc) == ("error" :> Str(exc)) @@ map

ErrorBody(map, exc) == [error |-> Str(exc)]

\* positions at which a request does not occupy the event loop: before it
\* arrives, while it awaits files.read(), and after it returned
YieldsAtCalls(p) == p \in {"idle", "read", "call", "done"}

Yields(p) == p \in {"idle", "read", "done"}

----------------------------------------------------------------------------
(* State *)

NoUpload == [filename |-> <<>>, bytes |-> NotAnArchive]
NotRead == [read |-> FALSE, bytes |-> NotAnArchive]
NoFrame == <<>>
NoPath == <<>>
NoResponse == [status_code |-> 0, body |-> <<>>]

\* The process is up with the credential set, or with it empty: line 106
\* treats the empty string as missing, and the client of line 33 is
\* constructed from it without complaint.
Init ==
    /\ GROQ_API_KEY \in {"", "gsk_key"}
    /\ starlette_str \in BOOLEAN
    /\ loop = 0
    /\ fs = <<>>
    /\ pc = [r \in Reqs |-> "idle"]
    /\ files = [r \in Reqs |-> NoUpload]
    /\ contents = [r \in Reqs |-> NotRead]
    /\ file_names = [r \in Reqs |-> <<>>]
    /\ csv_file_path = [r \in Reqs |-> NoPath]
    /\ df = [r \in Reqs |-> NoFrame]
    /\ answers = [r \in Reqs |-> <<>>]
    /\ idx = [r \in Reqs |-> 0]
    /\ calls = [r \in Reqs |-> <<>>]
    /\ e = [r \in Reqs |-> NoExc]
    /\ response = [r \in Reqs |-> NoResponse]

\* a request runs only when the event loop is free or already its own
Scheduled(r) == loop = IF Yields(pc[r]) THEN 0 ELSE r

\* the request moves to position p; the loop is released where p yields
Goto(r, p) ==
    /\ pc' = [pc EXCEPT ![r] = p]
    /\ loop' = IF Yields(p) THEN 0 ELSE r

\* lines 160-162: the exception is caught and returned as an error body
Except(r, exc) ==
    /\ e' = [e EXCEPT ![r] = exc]
    /\ response' = [response EXCEPT ![r] =
                       [status_code |-> 200, body |-> ErrorBody(answers[r], exc)]]
    /\ Goto(r, "done")

----------------------------------------------------------------------------
(* Steps of process_request *)

\* lines 103-112: the request arrives; credential and file-name checks
Receive(r) ==
    /\ pc[r] = "idle"
    /\ Scheduled(r)
    /\ \E u \in UploadsOf(r) :
        /\ files' = [files EXCEPT ![r] = u]
        /\ IF NotKey(GROQ_API_KEY)
           THEN /\ response' = [response EXCEPT ![r] =
                                   [status_code |-> 500,
                                    body |-> [detail |-> MissingKeyDetail]]]
                /\ Goto(r, "done")
                /\ e' = e
           ELSE IF ~EndsWith(u.filename, DotZip)
           THEN Except(r, HTTPException(400, NotZipDetail))
           ELSE /\ Goto(r, "read")
                /\ UNCHANGED <<e, response>>
    /\ UNCHANGED <<GROQ_API_KEY, starlette_str, fs, contents, file_names,
                   csv_file_path, df, answers, idx, calls>>

\* lines 115-124: files.read() resolves; the archive is opened and checked
ReadDone(r) ==
    /\ pc[r] = "read"
    /\ Scheduled(r)
    /\ contents' = [contents EXCEPT ![r] = [read |-> TRUE, bytes |-> files[r].bytes]]
    /\ IF ~files[r].bytes.zip
       THEN /\ Except(r, BadZipFile)
            /\ file_names' = file_names
       ELSE /\ file_names' = [file_names EXCEPT ![r] = NameList(files[r].bytes)]
            /\ IF NotOneCsv(NameList(files[r].bytes))
               THEN Except(r, HTTPException(400, NotOneCsvDetail))
               ELSE /\ Goto(r, "extract")
                    /\ UNCHANGED <<e, response>>
    /\ UNCHANGED <<GROQ_API_KEY, starlette_str, fs, files, csv_file_path, df,
                   answers, idx, calls>>

\* lines 127-131: the entry is written under the scratch directory
Extract(r) ==
    /\ pc[r] = "extract"
    /\ Scheduled(r)
    /\ LET path == PathJoin(extracted_dir, file_names[r][1])
       IN  /\ fs' = (path :> MemberData(contents[r].bytes, file_names[r][1])) @@ fs
           /\ csv_file_path' = [csv_file_path EXCEPT ![r] = path]
    /\ Goto(r, "parse")
    /\ UNCHANGED <<GROQ_API_KEY, starlette_str, files, contents, file_names,
                   df, answers, idx, calls, e, response>>

\* lines 134-138: pd.read_csv(csv_file_path)
Parse(r) ==
    /\ pc[r] = "parse"
    /\ Scheduled(r)
    /\ IF csv_file_path[r] \notin DOMAIN fs
       THEN Except(r, FileNotFoundError) /\ df' = df
       ELSE IF fs[csv_file_path[r]] = EmptyFile
       THEN Except(r, EmptyDataError) /\ df' = df
       ELSE /\ df' = [df EXCEPT ![r] = ReadCsv(fs[csv_file_path[r]])]
            /\ Goto(r, "dispatch")
            /\ UNCHANGED <<e, response>>
    /\ UNCHANGED <<GROQ_API_KEY, starlette_str, fs, files, contents,
                   file_names, csv_file_path, answers, idx, calls>>

\* lines 140-142: answers = dict(); the for loop evaluates df['question']
Dispatch(r) ==
    /\ pc[r] = "dispatch"
    /\ Scheduled(r)
    /\ answers' = [answers EXCEPT ![r] = <<>>]
    /\ idx' = [idx EXCEPT ![r] = 0]
    /\ LET col == Column(df[r], "question")
       IN  IF ~col.found
           THEN Except(r, KeyError("question"))
           ELSE /\ Goto(r, IF col.series = <<>> THEN "remove" ELSE "call")
                /\ UNCHANGED <<e, response>>
    /\ UNCHANGED <<GROQ_API_KEY, starlette_str, fs, files, contents,
                   file_names, csv_file_path, df, calls>>

\* lines 142-152: one iteration, one blocking remote call and its outcome
Call(r) ==
    /\ pc[r] = "call"
    /\ Scheduled(r)
    /\ LET series == Column(df[r], "question").series
           question == series[idx[r] + 1]
       IN  \/ \E content \in Answers :
                /\ calls' = [calls EXCEPT ![r] = Append(@,
                                [question |-> question, ok |-> TRUE,
                                 content |-> content])]
                /\ answers' = [answers EXCEPT ![r] = Store(@, question, content)]
                /\ idx' = [idx EXCEPT ![r] = @ + 1]
                /\ Goto(r, IF idx[r] + 1 = Len(series) THEN "remove" ELSE "call")
                /\ UNCHANGED <<e, response>>
           \/ /\ calls' = [calls EXCEPT ![r] = Append(@,
                              [question |-> question, ok |-> FALSE,
                               content |-> ""])]
              /\ Except(r, APIConnectionError)
              /\ UNCHANGED <<answers, idx>>
    /\ UNCHANGED <<GROQ_API_KEY, starlette_str, fs, files, contents,
                   file_names, csv_file_path, df>>

\* lines 155-158: os.remove(csv_file_path); return answers
RemoveFile(r) ==
    /\ pc[r] = "remove"
    /\ Scheduled(r)
    /\ IF csv_file_path[r] \in DOMAIN fs
       THEN /\ fs' = Remove(fs, csv_file_path[r])
            /\ response' = [response EXCEPT ![r] =
                               [status_code |-> 200, body |-> SuccessBody(answers[r])]]
            /\ Goto(r, "done")
            /\ e' = e
       ELSE /\ Except(r, FileNotFoundError)
            /\ fs' = fs
    /\ UNCHANGED <<GROQ_API_KEY, starlette_str, files, contents, file_names,
                   csv_file_path, df, answers, idx, calls>>

\* the response is sent; the locals of the request are gone
Deliver(r) ==
    /\ pc[r] = "done"
    /\ Scheduled(r)
    /\ Goto(r, "idle")
    /\ files' = [files EXCEPT ![r] = NoUpload]
    /\ contents' = [contents EXCEPT ![r] = NotRead]
    /\ file_names' = [file_names EXCEPT ![r] = <<>>]
    /\ csv_file_path' = [csv_file_path EXCEPT ![r] = NoPath]
    /\ df' = [df EXCEPT ![r] = NoFrame]
    /\ answers' = [answers EXCEPT ![r] = <<>>]
    /\ idx' = [idx EXCEPT ![r] = 0]
    /\ calls' = [calls EXCEPT ![r] = <<>>]
    /\ e' = [e EXCEPT ![r] = NoExc]
    /\ response' = [response EXCEPT ![r] = NoResponse]
    /\ UNCHANGED <<GROQ_API_KEY, starlette_str, fs>>

Next ==
    \E r \in Reqs :
        \/ Receive(r)
        \/ ReadDone(r)
        \/ Extract(r)
        \/ Parse(r)
        \/ Dispatch(r)
        \/ Call(r)
        \/ RemoveFile(r)
        \/ Deliver(r)

Spec == Init /\ [][Next]_vars

----------------------------------------------------------------------------
(* Vocabulary of the properties.  It is written independently of the       *)
(* helpers of the handler, so that a property does not inherit an error of *)
(* the code it is about.                                                   *)

Done(r) == pc[r] = "done"
HasKey == GROQ_API_KEY # ""
Suffix(s, n) == IF Len(s) >= n THEN SubSeq(s, Len(s) - n + 1, Len(s)) ELSE <<>>
Entries(r) == files[r].bytes.entries

\* the upload is named *.zip and is an archive
ZipUpload(r) == Suffix(files[r].filename, 4) = DotZip /\ files[r].bytes.zip

\* the entries of the archive named *.csv
CsvEntries(r) == {i \in DOMAIN Entries(r) : Suffix(Entries(r)[i].name, 4) = DotCsv}

\* the file has a header line naming a column "question"
HasQuestionColumn(data) == data # <<>> /\ data[1] = "question"

\* the archive holds a single entry, named *.csv
SoleCsvEntry(r) == ZipUpload(r) /\ Len(Entries(r)) = 1 /\ CsvEntries(r) = {1}

\* the request returned the mapping: no exception reached lines 160-162
Succeeded(r) == Done(r) /\ response[r].status_code = 200 /\ e[r] = NoExc

\* the request returned {"error": message}
ErrorEnvelope(r, message) ==
    response[r] = [status_code |-> 200, body |-> [error |-> message]]

AllCallsOk(r) == \A i \in DOMAIN calls[r] : calls[r][i].ok

\* the rows the request iterates over
Rows(r) == IF "question" \in DOMAIN df[r] THEN df[r]["question"] ELSE <<>>

\* index of the last call answered so far for question q
LastCall(r, q) ==
    LET answered == {i \in DOMAIN calls[r] : calls[r][i].ok /\ calls[r][i].question = q}
    IN  CHOOSE i \in answered : \A j \in answered : j <= i

----------------------------------------------------------------------------
(* C1 *)

\* C1: for every archive that contains exactly one .csv entry, with a
\* "question" column and N data rows, and with every remote call succeeding,
\* the response carries an answer mapping of at most N entries whose keys
\* are question values of the rows.
C1_OneCsvEntryGivesMapping ==
    \A r \in Reqs :
        (/\ Done(r) /\ HasKey /\ ZipUpload(r)
         /\ Cardinality(CsvEntries(r)) = 1
         /\ \A i \in CsvEntries(r) : HasQuestionColumn(Entries(r)[i].data)
         /\ AllCallsOk(r))
        => LET i == CHOOSE j \in CsvEntries(r) : TRUE
               rows == Tail(Entries(r)[i].data)
           IN  /\ Succeeded(r)
               /\ Cardinality(DOMAIN response[r].body) <= Len(rows)
               /\ \A k \in DOMAIN response[r].body :
                      \E j \in DOMAIN rows : rows[j] = k

----------------------------------------------------------------------------
(* C2 *)

\* C2: an archive with zero or with two or more .csv entries always yields
\* an error response and no remote call; for an archive of two CSV files the
\* body is exactly {"error": "ZIP must contain exactly one CSV file."}.
C2_NotOneCsvExactMessage ==
    \A r \in Reqs :
        (Done(r) /\ HasKey /\ ZipUpload(r) /\ Cardinality(CsvEntries(r)) # 1)
        => /\ response[r].status_code = 200
           /\ DOMAIN response[r].body = {"error"}
           /\ calls[r] = <<>>
           /\ (Len(Entries(r)) = 2 /\ Cardinality(CsvEntries(r)) = 2
                  => ErrorEnvelope(r, NotOneCsvDetail))

----------------------------------------------------------------------------
(* C3 *)

\* C3 as stated: when every step succeeds the response is an object with the
\* single key "responses" whose value is the question -> answer mapping.
C3_ResponsesEnvelope ==
    \A r \in Reqs :
        Succeeded(r)
        => /\ DOMAIN response[r].body = {"responses"}
           /\ response[r].body["responses"] = answers[r]

\* C3 as amended: when every step succeeds the response is the question ->
\* answer mapping itself, with no wrapping key: its keys are the questions
\* of the uploaded rows and each value is an answer a remote call returned
\* for that question.
C3_BareMapping ==
    \A r \in Reqs :
        Succeeded(r)
        => /\ "responses" \notin DOMAIN response[r].body
           /\ SoleCsvEntry(r) /\ HasQuestionColumn(Entries(r)[1].data)
           /\ LET rows == Tail(Entries(r)[1].data)
              IN  /\ DOMAIN response[r].body = {rows[i] : i \in DOMAIN rows}
                  /\ \A q \in DOMAIN response[r].body :
                         \E i \in DOMAIN calls[r] :
                             /\ calls[r][i].ok
                             /\ calls[r][i].question = q
                             /\ calls[r][i].content = response[r].body[q]

\* the scenario of the spec: rows "2+2?" and "capital of France?", two
\* successful calls, and the two answers returned under the two questions
C3_Witness ==
    \E r \in Reqs :
        /\ Succeeded(r)
        /\ SoleCsvEntry(r)
        /\ Entries(r)[1].data = <<"question", "2+2?", "capital of France?">>
        /\ Len(calls[r]) = 2
        /\ response[r].body =
               ("2+2?" :> calls[r][1].content)
                   @@ ("capital of France?" :> calls[r][2].content)

----------------------------------------------------------------------------
(* C4 *)

\* C4: with the credential unset every request ends with a 500 response
\* that names the missing key, and nothing else ever happens: no upload is
\* read, nothing is extracted to the scratch directory, no remote call.
C4_MissingKey ==
    GROQ_API_KEY = ""
    => /\ DOMAIN fs = {}
       /\ \A r \in Reqs :
            /\ pc[r] \in {"idle", "done"}
            /\ contents[r] = NotRead
            /\ csv_file_path[r] = NoPath
            /\ calls[r] = <<>>
            /\ Done(r) => response[r] = [status_code |-> 500,
                                         body |-> [detail |-> MissingKeyDetail]]

C4_Witness ==
    /\ GROQ_API_KEY = ""
    /\ \E r \in Reqs : Done(r) /\ files[r].bytes # NotAnArchive

----------------------------------------------------------------------------
(* C5 *)

\* C5: a failed remote call is the last call of its request, and the request
\* has ended with the error envelope holding the exception's message only:
\* no answer computed for an earlier row is in the response.
C5_FailureDiscardsAnswers ==
    \A r \in Reqs :
        \A n \in DOMAIN calls[r] :
            ~calls[r][n].ok
            => /\ n = Len(calls[r])
               /\ Done(r)
               /\ e[r] = APIConnectionError
               /\ ErrorEnvelope(r, "Connection error.")
               /\ n <= Len(Rows(r))

\* the second call fails after the first was answered and stored
C5_Witness ==
    \E r \in Reqs :
        /\ Len(calls[r]) = 2
        /\ calls[r][1].ok /\ ~calls[r][2].ok
        /\ DOMAIN answers[r] # {}
        /\ Len(Rows(r)) >= 2
        /\ Done(r)

----------------------------------------------------------------------------
(* C6 *)

----------------------------------------------------------------------------
(* C7 *)

\* C7: an upload whose file name does not end with ".zip" ends at once with
\* the error envelope of the 400 "must be a ZIP file" exception: the upload
\* is never read, no entry is listed or extracted, no remote call is issued.
C7_NotZipRejectedBeforeRead ==
    \A r \in Reqs :
        (pc[r] # "idle" /\ HasKey /\ Suffix(files[r].filename, 4) # DotZip)
        => /\ Done(r)
           /\ e[r] = HTTPException(400, NotZipDetail)
           /\ response[r].status_code = 200
           /\ DOMAIN response[r].body = {"error"}
           /\ contents[r] = NotRead
           /\ file_names[r] = <<>>
           /\ csv_file_path[r] = NoPath
           /\ calls[r] = <<>>

C7_Witness ==
    \E r \in Reqs :
        /\ Done(r) /\ HasKey
        /\ files[r].filename = QTxt
        /\ files[r].bytes.zip

----------------------------------------------------------------------------
(* C8 *)

\* C8: the calls of a request are issued one per row, in row order; every
\* answer is stored under its question as it arrives, so the mapping always
\* holds, for each question asked so far, the answer of the last call for
\* it; after a successful dispatch over N rows exactly N calls were issued.
C8_OneCallPerRowLastWins ==
    \A r \in Reqs :
        /\ Len(calls[r]) <= Len(Rows(r))
        /\ \A i \in DOMAIN calls[r] : calls[r][i].question = Rows(r)[i]
        /\ idx[r] = Cardinality({i \in DOMAIN calls[r] : calls[r][i].ok})
        /\ DOMAIN answers[r] =
               {calls[r][i].question : i \in {j \in DOMAIN calls[r] : calls[r][j].ok}}
        /\ \A q \in DOMAIN answers[r] :
               answers[r][q] = calls[r][LastCall(r, q)].content
        /\ Succeeded(r)
               => /\ Len(calls[r]) = Len(Rows(r))
                  /\ response[r].body = answers[r]

\* a question that occurs in two rows got two different answers
C8_Witness ==
    \E r \in Reqs :
        /\ Succeeded(r)
        /\ Rows(r) = <<"2+2?", "2+2?">>
        /\ calls[r][1].content # calls[r][2].content
        /\ DOMAIN response[r].body = {"2+2?"}
        /\ response[r].body["2+2?"] = calls[r][2].content

----------------------------------------------------------------------------
(* C9 *)

\* C9: when a request that extracted a file returns, the file is gone if
\* the request succeeded; if it failed, the return step removed nothing and
\* the extracted file is still in the scratch directory.
C9_DeletedOnlyOnSuccess ==
    [][\A r \in Reqs :
          (pc[r] # "done" /\ pc'[r] = "done" /\ csv_file_path'[r] # NoPath)
          => IF e'[r] = NoExc
             THEN csv_file_path'[r] \notin DOMAIN fs'
             ELSE /\ fs' = fs
                  /\ csv_file_path'[r] \in DOMAIN fs'
                  /\ fs'[csv_file_path'[r]] = Entries(r)[1].data]_vars

\* one request succeeded and its file is gone; another failed after
\* extraction and its file is still there
C9_Witness ==
    \E r \in Reqs, s \in Reqs :
        /\ Succeeded(r)
        /\ csv_file_path[r] # NoPath
        /\ csv_file_path[r] \notin DOMAIN fs
        /\ Done(s) /\ e[s] # NoExc
        /\ csv_file_path[s] # NoPath
        /\ csv_file_path[s] \in DOMAIN fs

----------------------------------------------------------------------------
(* C10 *)

\* C10 as stated: the remote completion call is a suspension point, so while
\* one request is in its dispatch loop another request, whose upload read is
\* pending, can be resumed (and so reach the shared scratch path).
C10_CallIsSuspensionPoint ==
    \A r \in Reqs, s \in Reqs :
        (r # s /\ pc[r] = "call" /\ pc[s] = "read") => ENABLED ReadDone(s)

\* C10 as amended: the only suspension point is the upload read; from the
\* opening of the archive to the return the request keeps the event loop.
\* So two requests with the same entry name do not disturb each other: from
\* extraction to deletion the scratch file holds the request's own entry,
\* the rows it iterates are its own, and a request whose remote calls all
\* succeeded ends in success.
C10_NoDisturbance ==
    \A r \in Reqs :
        /\ pc[r] \in {"parse", "dispatch", "call", "remove"}
               => /\ csv_file_path[r] \in DOMAIN fs
                  /\ fs[csv_file_path[r]] = Entries(r)[1].data
                  /\ \A s \in Reqs \ {r} : pc[s] \in {"idle", "read", "done"}
        /\ DOMAIN df[r] # {}
               => df[r] = (Head(Entries(r)[1].data) :> Tail(Entries(r)[1].data))
        /\ (Done(r) /\ "question" \in DOMAIN df[r] /\ AllCallsOk(r))
               => Succeeded(r)

\* a request that shares its entry name with a pending request, whose data
\* differ, went through its remote calls and returned its mapping
C10_Witness ==
    \E r \in Reqs, s \in Reqs :
        /\ r # s
        /\ Succeeded(r) /\ calls[r] # <<>>
        /\ pc[s] = "read"
        /\ SoleCsvEntry(s)
        /\ Entries(s)[1].name = Entries(r)[1].name
        /\ Entries(s)[1].data # Entries(r)[1].data

====
